---------------------------- MODULE Spec2Model ----------------------------
(***************************************************************************)
(* OmniCamera: format negotiation (CameraFormatOptions), control value     *)
(* mapping (CameraControl) and the open/poll protocol (Camera), as the     *)
(* Python wrappers src/omni_camera/__init__.py and                         *)
(* src/camerata/__init__.py implement them.                                *)
(*                                                                         *)
(* Four state machines share the module:                                   *)
(*   Spec         a caller narrowing and resolving a format list           *)
(*   SpecDefault  a caller resolving a format list by the default chain    *)
(*   SpecControl  a caller driving one CameraControl                       *)
(*   SpecCamera   a caller opening and polling one Camera                  *)
(* Python lists are mutable objects: a list is modelled by its contents    *)
(* plus the reference the caller's chain currently holds (cur), because    *)
(* prefer() returns `self` itself when nothing matches.                    *)
(***************************************************************************)
EXTENDS Integers, Sequences, FiniteSets

VARIABLES
    pkg,      \* which of the two packages is imported: "omni_camera" | "camerata"
    dev,      \* the formats the engine reports (self._cam.get_formats())
    opts,     \* contents of the list get_format_options() returned to the caller
    tmp,      \* contents of the newest list a prefer() call created
    cur,      \* the list the caller's chain holds: "opts" | "tmp"
    last,     \* the latest CameraFormatOptions call: receiver, argument, result
    before,   \* the call before it
    raw,      \* the control's raw range <<start, stop, step>> the engine reports
    ctl,      \* engine side of the control: value set, number of set_value calls
    clast,    \* the latest CameraControl call
    cam,      \* the Camera object: _initialized
    eng,      \* engine side of the camera: opened, calls received
    camlast   \* the latest Camera call

fvars == <<dev, opts, tmp, cur, last, before>>
cvars == <<raw, ctl, clast>>
kvars == <<cam, eng, camlast>>
vars == <<pkg, dev, opts, tmp, cur, last, before, raw, ctl, clast, cam, eng, camlast>>

(***************************************************************************)
(* Bounds and input grids                                                  *)
(***************************************************************************)
MaxLen == 3

\* Python's None for an optional argument; Some(x) is a present value.
None == <<>>
Some(x) == <<x>>

\* FrameFormat's two members, by value.
MJPEG == "mjpeg"
YUYV == "yuyv"

\* The format descriptors a device of the model may report: two of equal width,
\* one that meets none of resolve_default's preferences, one that meets all
\* but the aspect ratio.
ChainFormats ==
    { [width |-> 640,  height |-> 480, frame_rate |-> 30, format |-> YUYV],
      [width |-> 640,  height |-> 480, frame_rate |-> 60, format |-> MJPEG],
      [width |-> 1280, height |-> 720, frame_rate |-> 15, format |-> YUYV] }
Universe ==
    ChainFormats \cup { [width |-> 1280, height |-> 720, frame_rate |-> 30, format |-> MJPEG] }

SeqsUpTo(S, n) == UNION { [1..k -> S] : k \in 0..n }

Packages == {"omni_camera", "camerata"}
\* Every predicate on ChainFormats (Spec draws its lists from these; the value
\* elsewhere is immaterial and fixed).
Predicates == { f \in [Universe -> BOOLEAN] : \A x \in Universe \ ChainFormats : ~f[x] }
FpsMinGrid == {None, Some(25), Some(50)}
FpsMaxGrid == {None, Some(60), Some(70)}
WidthGrid == {None, Some(640), Some(1000)}
HeightGrid == {None, Some(480), Some(700)}
RatioGrid == {<<4, 3>>, <<16, 9>>, <<800, 504>>}
KeyGrid == {"width", "height", "frame_rate"}

(***************************************************************************)
(* CameraFormatOptions                                                     *)
(***************************************************************************)
\* A plausible slip: accepted members collected in front, so in reverse order.
RECURSIVE filter_reversed(_, _)
filter_reversed(func, self) ==
    IF self = <<>> THEN <<>>
    ELSE filter_reversed(func, Tail(self)) \o (IF func[Head(self)] THEN <<Head(self)>> ELSE <<>>)

\* filter(func, self): the members func accepts, in iteration order.
RECURSIVE filter(_, _)
filter(func, self) ==
    IF self = <<>> THEN <<>>
    ELSE (IF func[Head(self)] THEN <<Head(self)>> ELSE <<>>) \o filter(func, Tail(self))

\* A plausible slip: the fallback taken when at most one format is left.
prefer_fallback_on_one(self, func) ==
    LET options == filter(func, self)
    IN  IF Len(options) <= 1 THEN [is_self |-> TRUE, items |-> self]
        ELSE [is_self |-> FALSE, items |-> options]

\* A plausible slip: the fallback forgotten.
prefer_no_fallback(self, func) ==
    [is_self |-> FALSE, items |-> filter(func, self)]

\* prefer(func): a new list of the accepted members, or self itself (the same
\* object) when none is accepted.
prefer(self, func) ==
    LET options == filter(func, self)
    IN  IF options = <<>> THEN [is_self |-> TRUE, items |-> self]
        ELSE [is_self |-> FALSE, items |-> options]

\* The lambda of _prefer_range; val_getter is the attribute read.
range_func(val_getter, min_val, max_val) ==
    [x \in Universe |->
        /\ (min_val = None \/ x[val_getter] >= min_val[1])
        /\ (max_val = None \/ x[val_getter] <= max_val[1])]

_prefer_range(self, val_getter, min_val, max_val) ==
    prefer(self, range_func(val_getter, min_val, max_val))

prefer_fps_range(self, min_fps, max_fps) ==
    _prefer_range(self, "frame_rate", min_fps, max_fps)

\* camerata's prefer_fps_range spells the lambda out itself.
camerata_prefer_fps_range(self, min_fps, max_fps) ==
    prefer(self, [x \in Universe |->
        /\ (min_fps = None \/ x.frame_rate >= min_fps[1])
        /\ (max_fps = None \/ x.frame_rate <= max_fps[1])])

prefer_width_range(self, min_width, max_width) ==
    _prefer_range(self, "width", min_width, max_width)

prefer_height_range(self, min_heigth, max_height) ==
    _prefer_range(self, "height", min_heigth, max_height)

\* abs(x.width/x.height - width_by_height) < 1e-6, the ratio given as the
\* fraction <<n, d>> (4/3 is <<4, 3>>), compared exactly: float rounding is some
\* 1e-16, ten orders below the tolerance. For integers,
\* |w*d - n*h| * 10^6 < h*d  iff  |w*d - n*h| <= (h*d - 1) \div 10^6.
ratio_func(width_by_height) ==
    LET n == width_by_height[1]
        d == width_by_height[2]
        Abs(v) == IF v < 0 THEN -v ELSE v
    IN  [x \in Universe |-> Abs(x.width * d - n * x.height) <= (x.height * d - 1) \div 1000000]

prefer_aspect_ratio(self, width_by_height) ==
    prefer(self, ratio_func(width_by_height))

\* A plausible slip: the renamed method no longer narrows anything.
prefer_sides_ratio_noop(self, width_by_height) ==
    [is_self |-> TRUE, items |-> self]

\* The deprecated name: warns (non-fatal) and delegates.
prefer_sides_ratio(self, width_by_height) ==
    prefer_aspect_ratio(self, width_by_height)

\* camerata has only this name, and filters itself.
camerata_prefer_sides_ratio(self, width_by_height) ==
    prefer(self, ratio_func(width_by_height))

format_func(fmt) == [x \in Universe |-> x.format = fmt]

prefer_frame_format(self, fmt) ==
    prefer(self, format_func(fmt))

\* A call's outcome: err = "" and val = <<result>>, or the exception raised.
Ok(v) == [err |-> "", val |-> <<v>>]
Raise(e) == [err |-> e, val |-> <<>>]
NoRet == [err |-> "", val |-> <<>>]

\* Python's max(iterable, key=key): the running best is replaced only by a
\* strictly greater key, so the first maximal member wins.
RECURSIVE max_scan(_, _, _)
max_scan(best, rest, key) ==
    IF rest = <<>> THEN best
    ELSE max_scan(IF Head(rest)[key] > best[key] THEN Head(rest) ELSE best,
                  Tail(rest), key)

\* omni_camera's resolve(key): max(self, key=key); ValueError on an empty list.
resolve(self, key) ==
    IF self = <<>> THEN Raise("ValueError")
    ELSE Ok(max_scan(Head(self), Tail(self), key))

\* list.sort(key=width): stable, in place.
RECURSIVE sort_by_width(_)
sort_by_width(self) ==
    IF self = <<>> THEN <<>>
    ELSE LET x == self[Len(self)]
             sorted == sort_by_width(SubSeq(self, 1, Len(self) - 1))
         IN  SelectSeq(sorted, LAMBDA y : y.width <= x.width) \o <<x>>
             \o SelectSeq(sorted, LAMBDA y : y.width > x.width)

\* camerata's resolve(): sorts self in place by width and returns self[-1];
\* IndexError on an empty list. items is self's contents after the call.
camerata_resolve(self) ==
    LET sorted == sort_by_width(self)
    IN  [items |-> sorted,
         ret |-> IF sorted = <<>> THEN Raise("IndexError") ELSE Ok(sorted[Len(sorted)])]

\* omni_camera's resolve_default().
resolve_default(self) ==
    LET a == prefer_fps_range(self, Some(25), Some(60))
        b == prefer_sides_ratio(a.items, <<4, 3>>)
        c == prefer_frame_format(b.items, MJPEG)
    IN  resolve(c.items, "width")

\* camerata's resolve_default(): the final resolve() sorts the list the chain
\* ends on, which is self when all three preferences fell back.
camerata_resolve_default(self) ==
    LET a == camerata_prefer_fps_range(self, Some(25), Some(60))
        b == camerata_prefer_sides_ratio(a.items, <<4, 3>>)
        c == prefer_frame_format(b.items, MJPEG)
        r == camerata_resolve(c.items)
    IN  [items |-> IF a.is_self /\ b.is_self /\ c.is_self THEN r.items ELSE self,
         ret |-> r.ret]

(***************************************************************************)
(* The caller of a format list                                             *)
(***************************************************************************)
\* A predicate as far as the device's formats can tell: what a call is
\* recorded with.
Range(s) == { s[i] : i \in DOMAIN s }
OnDevice(func) == [x \in Range(dev) |-> func[x]]
NoFunc == [x \in Universe |-> FALSE]
NoCall == [op |-> "none", self |-> <<>>, func |-> OnDevice(NoFunc), key |-> "",
           items |-> <<>>, ret |-> NoRet, after |-> <<>>]

\* The contents of the list the chain holds.
View == IF cur = "opts" THEN opts ELSE tmp

\* Record a call and shift the previous one.
Note(op, func, key, items, ret, after) ==
    /\ last' = [op |-> op, self |-> View, func |-> OnDevice(func), key |-> key,
                items |-> items, ret |-> ret, after |-> after]
    /\ before' = last
    /\ UNCHANGED <<pkg, dev, cvars, kvars>>

\* The chain moves to what a prefer* call returned: self, or a new list.
Narrow(r, func) ==
    /\ IF r.is_self THEN UNCHANGED <<cur, tmp>>
       ELSE cur' = "tmp" /\ tmp' = r.items
    /\ Note("prefer", func, "", r.items, NoRet, View)
    /\ UNCHANGED opts

\* The receiver's contents become `items` (an in-place sort).
Mutate(items) ==
    IF cur = "opts" THEN opts' = items /\ UNCHANGED tmp
    ELSE tmp' = items /\ UNCHANGED opts

InitFormat(formats) ==
    /\ pkg \in Packages
    /\ dev \in SeqsUpTo(formats, MaxLen)
    /\ opts = dev
    /\ tmp = <<>>
    /\ cur = "opts"
    /\ last = NoCall
    /\ before = NoCall

\* Camera.get_format_options(): a fresh list; the caller starts a new chain.
GetFormatOptions ==
    /\ opts' = dev
    /\ tmp' = <<>>
    /\ cur' = "opts"
    /\ last' = [NoCall EXCEPT !.op = "get_format_options", !.items = dev]
    /\ before' = last
    /\ UNCHANGED <<pkg, dev, cvars, kvars>>

Prefer(func) ==
    /\ pkg \in Packages
    /\ Narrow(prefer(View, func), func)

PreferFpsRange(min_fps, max_fps) ==
    /\ pkg = "omni_camera"
    /\ Narrow(prefer_fps_range(View, min_fps, max_fps),
              range_func("frame_rate", min_fps, max_fps))

CamerataPreferFpsRange(min_fps, max_fps) ==
    /\ pkg = "camerata"
    /\ Narrow(camerata_prefer_fps_range(View, min_fps, max_fps),
              range_func("frame_rate", min_fps, max_fps))

PreferWidthRange(min_width, max_width) ==
    /\ pkg = "omni_camera"
    /\ Narrow(prefer_width_range(View, min_width, max_width),
              range_func("width", min_width, max_width))

PreferHeightRange(min_heigth, max_height) ==
    /\ pkg = "omni_camera"
    /\ Narrow(prefer_height_range(View, min_heigth, max_height),
              range_func("height", min_heigth, max_height))

PreferAspectRatio(width_by_height) ==
    /\ pkg = "omni_camera"
    /\ Narrow(prefer_aspect_ratio(View, width_by_height), ratio_func(width_by_height))

PreferSidesRatio(width_by_height) ==
    /\ pkg = "omni_camera"
    /\ Narrow(prefer_sides_ratio(View, width_by_height), ratio_func(width_by_height))

CamerataPreferSidesRatio(width_by_height) ==
    /\ pkg = "camerata"
    /\ Narrow(camerata_prefer_sides_ratio(View, width_by_height),
              ratio_func(width_by_height))

PreferFrameFormat(fmt) ==
    /\ pkg \in Packages
    /\ Narrow(prefer_frame_format(View, fmt), format_func(fmt))

Resolve(key) ==
    /\ pkg = "omni_camera"
    /\ Note("resolve", NoFunc, key, <<>>, resolve(View, key), View)
    /\ UNCHANGED <<opts, tmp, cur>>

CamerataResolve ==
    /\ pkg = "camerata"
    /\ LET r == camerata_resolve(View)
       IN  /\ Mutate(r.items)
           /\ Note("resolve", NoFunc, "width", <<>>, r.ret, r.items)
    /\ UNCHANGED cur

ResolveDefault ==
    /\ pkg = "omni_camera"
    /\ Note("resolve_default", NoFunc, "width", <<>>, resolve_default(View), View)
    /\ UNCHANGED <<opts, tmp, cur>>

CamerataResolveDefault ==
    /\ pkg = "camerata"
    /\ LET r == camerata_resolve_default(View)
       IN  /\ Mutate(r.items)
           /\ Note("resolve_default", NoFunc, "width", <<>>, r.ret, r.items)
    /\ UNCHANGED cur

(***************************************************************************)
(* Properties of the format list                                           *)
(***************************************************************************)
\* The positions of s whose member func accepts, and the k-th of them.
Matching(s, func) == { i \in DOMAIN s : func[s[i]] }
Kth(idx, k) == CHOOSE i \in idx : Cardinality({ j \in idx : j <= i }) = k

\* C1: prefer(p) on S returns exactly the members of S that satisfy p, in their
\* original relative order, when at least one does; otherwise it returns S
\* itself, same members, same order.
C1_PreferFilterOrFallback ==
    last.op = "prefer" =>
        LET S == last.self
            idx == Matching(S, last.func)
            r == last.items
        IN  IF idx = {}
            THEN r = S /\ last.after = S
            ELSE /\ Len(r) = Cardinality(idx)
                 /\ \A k \in 1..Len(r) : r[k] = S[Kth(idx, k)]

\* C1's case: two of three formats accepted, a rejected one between or around them.
C1_Witness ==
    /\ last.op = "prefer"
    /\ Len(last.self) = 3
    /\ Len(last.items) = 2
    /\ last.items[1] # last.items[2]

\* C2: from a non-empty list, no chain of prefer* calls ends on an empty list,
\* and every member of the list the chain holds is a member of the list it
\* started from.
C2_ChainNeverEmpty ==
    dev # <<>> =>
        /\ View # <<>>
        /\ Range(View) \subseteq Range(dev)
        /\ last.op = "prefer" => last.items # <<>> /\ Range(last.items) \subseteq Range(dev)

\* C2's case: a second preference that nothing in the already narrowed list meets.
C2_Witness ==
    /\ dev # <<>>
    /\ before.op = "prefer"
    /\ last.op = "prefer"
    /\ cur = "tmp"
    /\ Len(last.self) < Len(dev)
    /\ Matching(last.self, last.func) = {}

\* Two consecutive prefer calls of a chain: S.prefer(A).prefer(B).
TwoPrefers == before.op = "prefer" /\ last.op = "prefer"
Swapped == prefer(prefer(before.self, last.func).items, before.func).items

\* C3 as claimed: S.prefer(A).prefer(B) = S.prefer(B).prefer(A) whenever A and
\* B each match at least one member of S.
C3_CommuteIfEachMatches ==
    ( /\ TwoPrefers
      /\ Matching(before.self, before.func) # {}
      /\ Matching(before.self, last.func) # {} )
    => last.items = Swapped

\* C3 as amended: S.prefer(A).prefer(B) = S.prefer(B).prefer(A) whenever some
\* member of S satisfies both A and B.
C3_CommuteIfJointMatch ==
    ( /\ TwoPrefers
      /\ Matching(before.self, before.func) \cap Matching(before.self, last.func) # {} )
    => last.items = Swapped

\* Exactly when the two orders differ: each preference matches some member
\* of S and no member meets both (a preference that matches nothing is
\* harmless in either position).
CommuteExactly ==
    TwoPrefers =>
        ( last.items # Swapped
          <=> /\ Matching(before.self, before.func) # {}
              /\ Matching(before.self, last.func) # {}
              /\ Matching(before.self, before.func) \cap Matching(before.self, last.func) = {} )

\* C3's case: two different preferences, each narrowing further, one format
\* meeting both.
C3_Witness ==
    /\ TwoPrefers
    /\ before.func # last.func
    /\ Matching(before.self, before.func) \cap Matching(before.self, last.func) # {}
    /\ Len(last.items) < Len(last.self)
    /\ Len(last.self) < Len(before.self)

\* The first position of s whose key is maximal.
FirstMax(s, key) ==
    CHOOSE i \in DOMAIN s :
        /\ \A j \in DOMAIN s : s[j][key] <= s[i][key]
        /\ \A j \in 1..(i - 1) : s[j][key] < s[i][key]
LastMax(s, key) ==
    CHOOSE i \in DOMAIN s :
        /\ \A j \in DOMAIN s : s[j][key] <= s[i][key]
        /\ \A j \in (i + 1)..Len(s) : s[j][key] < s[i][key]

\* C4: on a non-empty list resolve() returns a member of maximal key, the
\* first such in the list's order.
C4_ResolveFirstMaximal ==
    (last.op = "resolve" /\ last.self # <<>>)
    => last.ret = Ok(last.self[FirstMax(last.self, last.key)])

\* C4 holds of omni_camera's resolve.
OmniResolveFirstMaximal == pkg = "omni_camera" => C4_ResolveFirstMaximal

\* camerata's resolve returns the last member of maximal width.
CamerataResolveLastMaximal ==
    (pkg = "camerata" /\ last.op = "resolve" /\ last.self # <<>>)
    => last.ret = Ok(last.self[LastMax(last.self, "width")])

\* The soft preference, stated without the code's helpers.
Soft(s, P(_)) == LET f == SelectSeq(s, P) IN IF f = <<>> THEN s ELSE f
FpsOk(x) == 25 <= x.frame_rate /\ x.frame_rate <= 60
FourByThree(x) == 3 * x.width = 4 * x.height
IsMjpeg(x) == x.format = MJPEG
DefaultPreferred(s) == Soft(Soft(Soft(s, FpsOk), FourByThree), IsMjpeg)

\* The chain resolve_default() is documented to equal, by the package's public
\* methods.
PublicChain(s) ==
    IF pkg = "omni_camera"
    THEN resolve(prefer_frame_format(
                    prefer_aspect_ratio(
                        prefer_fps_range(s, Some(25), Some(60)).items,
                        <<4, 3>>).items,
                    MJPEG).items, "width")
    ELSE camerata_resolve(prefer_frame_format(
                    camerata_prefer_sides_ratio(
                        camerata_prefer_fps_range(s, Some(25), Some(60)).items,
                        <<4, 3>>).items,
                    MJPEG).items).ret

\* C8: on a non-empty list resolve_default() raises nothing and returns what
\* prefer_fps_range(25, 60).prefer_aspect_ratio(4/3).prefer_frame_format(MJPEG)
\* .resolve() returns: a widest member of the softly narrowed list.
C8_ResolveDefaultIsChain ==
    (last.op = "resolve_default" /\ last.self # <<>>)
    => /\ last.ret.err = ""
       /\ last.ret = PublicChain(last.self)
       /\ LET P == DefaultPreferred(last.self)
          IN  \E i \in DOMAIN P :
                /\ last.ret.val = <<P[i]>>
                /\ \A j \in DOMAIN P : P[j].width <= P[i].width

\* C8's case: no format of the list meets any of the three preferences.
C8_Witness ==
    /\ last.op = "resolve_default"
    /\ last.self # <<>>
    /\ \A i \in DOMAIN last.self :
        ~FpsOk(last.self[i]) /\ ~FourByThree(last.self[i]) /\ ~IsMjpeg(last.self[i])
    /\ last.ret.err = ""

\* C9: no prefer*, resolve or resolve_default call changes the members or the
\* order of the list it is called on, and the caller's list stays as the
\* device reported it.
C9_CallsLeaveReceiverUnchanged ==
    /\ last.after = last.self
    /\ opts = dev

\* C9 holds of omni_camera.
OmniCallsLeaveReceiverUnchanged == pkg = "omni_camera" => C9_CallsLeaveReceiverUnchanged

(***************************************************************************)
(* CameraControl                                                           *)
(***************************************************************************)
MaxStart == 3
MaxSpan == 5
MaxStep == 3
\* Fractions tried are k/Den, k in -1..Den+1. Den 4 (and 5) keeps the float
\* product fraction * (len - 1) on the same side of every .5 as the exact one.
Den == 4

\* The raw (start, stop, step) an engine may report, step >= 1, and the two
\* ranges the documentation discusses.
RawRanges ==
    { <<start, start + span, step>> :
        start \in (-MaxStart)..MaxStart, span \in (-1)..MaxSpan, step \in 1..MaxStep }
    \cup { <<4000, 10000, 1000>>, <<4500, 10000, 1000>> }

\* Python's range(start, stop, step), step >= 1, as the sequence of its values.
py_range(start, stop, step) ==
    LET n == IF stop <= start THEN 0 ELSE (stop - start + step - 1) \div step
    IN  [i \in 1..n |-> start + (i - 1) * step]

\* while new_start <= start: new_start += step
RECURSIVE while_new_start(_, _, _)
while_new_start(new_start, start, step) ==
    IF new_start <= start THEN while_new_start(new_start + step, start, step)
    ELSE new_start

\* The property value_range: new_start is computed and then not used; the range
\* returned starts at the raw start.
value_range(r) ==
    LET start == r[1]
        stop == r[2]
        step == r[3]
        new_start == while_new_start((start \div step) * step, start, step)
    IN  py_range(start, stop, step)

\* Python's round() of the fraction num/den, den > 0: to nearest, ties to even.
round(num, den) ==
    LET q == num \div den
        rem == num % den
    IN  IF 2 * rem < den THEN q
        ELSE IF 2 * rem > den THEN q + 1
        ELSE IF q % 2 = 0 THEN q ELSE q + 1

\* seq[ind] of Python: a negative index counts from the end; IndexError outside.
py_index(seq, ind) ==
    LET i == IF ind < 0 THEN ind + Len(seq) ELSE ind
    IN  IF 0 <= i /\ i < Len(seq) THEN Ok(seq[i + 1]) ELSE Raise("IndexError")

\* set_value(value): what is raised, and what the engine's set_value receives
\* (sent = <<>>: the engine is not called).
set_value(r, value) ==
    IF value # None /\ value[1] \notin Range(value_range(r))
    THEN [raised |-> "AssertionError", sent |-> <<>>]
    ELSE [raised |-> "", sent |-> <<value>>]

\* set_fraction(fraction), fraction = k/Den.
set_fraction(r, k) ==
    IF ~(0 <= k /\ k <= Den)
    THEN [raised |-> "AssertionError", sent |-> <<>>]
    ELSE LET ind == round(k * (Len(value_range(r)) - 1), Den)
             v == py_index(value_range(r), ind)
         IN  IF v.err # "" THEN [raised |-> v.err, sent |-> <<>>]
             ELSE set_value(r, Some(v.val[1]))

\* The values a caller of the model passes to set_value.
ValuesToTry(r) ==
    { r[1] + d : d \in (-1)..(MaxSpan + 1) }
    \cup { r[1] - r[3], r[1] + r[3], (r[1] \div r[3]) * r[3] + r[3], r[2] - r[3], r[2] }

SetValueInputs ==
    {None} \cup { Some(v) : v \in UNION { ValuesToTry(r) : r \in RawRanges } }

NoControlCall == [op |-> "none", arg |-> None, k |-> 0, raised |-> "", sent |-> <<>>,
                  range |-> <<>>, value_before |-> None]

InitControl ==
    /\ raw \in RawRanges
    /\ ctl = [value |-> None]
    /\ clast = NoControlCall

\* The engine's set_value receives what was sent, if anything.
Forward(r) == IF r.sent = <<>> THEN ctl ELSE [value |-> r.sent[1]]

\* Reading control.value_range.
ValueRange ==
    /\ clast' = [NoControlCall EXCEPT !.op = "value_range", !.range = value_range(raw),
                                      !.value_before = ctl.value]
    /\ UNCHANGED <<raw, ctl, pkg, fvars, kvars>>

SetValue(value) ==
    /\ value \in {None} \cup { Some(v) : v \in ValuesToTry(raw) }
    /\ LET r == set_value(raw, value)
       IN  /\ ctl' = Forward(r)
           /\ clast' = [NoControlCall EXCEPT !.op = "set_value", !.arg = value,
                            !.raised = r.raised, !.sent = r.sent,
                            !.value_before = ctl.value]
    /\ UNCHANGED <<raw, pkg, fvars, kvars>>

SetFraction(k) ==
    /\ LET r == set_fraction(raw, k)
       IN  /\ ctl' = Forward(r)
           /\ clast' = [NoControlCall EXCEPT !.op = "set_fraction", !.k = k,
                            !.raised = r.raised, !.sent = r.sent,
                            !.value_before = ctl.value]
    /\ UNCHANGED <<raw, pkg, fvars, kvars>>

(***************************************************************************)
(* Properties of the control                                               *)
(***************************************************************************)
\* The normalized value set as documented: the progression of stride step
\* below stop that starts at floor(start/step)*step raised by step while it is
\* <= start, i.e. at the least multiple of step strictly above start.
Normalized(r) == py_range((r[1] \div r[3]) * r[3] + r[3], r[2], r[3])

\* C5: value_range is the normalized progression, so a non-empty one starts
\* strictly above the raw start (5000 for raw start 4000 and for 4500, step
\* 1000).
C5_ValueRangeNormalized ==
    clast.op = "value_range" =>
        /\ clast.range = Normalized(raw)
        /\ clast.range # <<>> => clast.range[1] > raw[1]

\* What the code returns instead: the raw progression, first value the raw start.
ValueRangeIsRawRange ==
    clast.op = "value_range" =>
        /\ Len(clast.range) = Cardinality({ v \in raw[1]..(raw[2] - 1) : (v - raw[1]) % raw[3] = 0 })
        /\ \A i \in DOMAIN clast.range : clast.range[i] = raw[1] + (i - 1) * raw[3]

\* set_value against a value set vs: outside it, an error and no engine call,
\* device untouched; inside it or None, exactly that value forwarded.
SetValueGuards(vs) ==
    clast.op = "set_value" =>
        IF clast.arg = None \/ clast.arg[1] \in Range(vs)
        THEN clast.raised = "" /\ clast.sent = <<clast.arg>> /\ ctl.value = clast.arg
        ELSE clast.raised # "" /\ clast.sent = <<>> /\ ctl.value = clast.value_before

\* C6: set_value(v) with v outside the normalized value set fails and forwards
\* nothing; with v in the set, or None, it forwards exactly v.
C6_SetValueGuardsNormalized == SetValueGuards(Normalized(raw))

\* set_value does guard the range value_range returns.
SetValueGuardsValueRange == SetValueGuards(value_range(raw))

\* set_fraction against a value set vs of n >= 1 values: f in [0, 1] forwards
\* vs[round(f * (n - 1))]; f outside fails and forwards nothing.
SetFractionIndexes(vs) ==
    (clast.op = "set_fraction" /\ Len(vs) >= 1) =>
        IF 0 <= clast.k /\ clast.k <= Den
        THEN /\ clast.raised = ""
             /\ clast.sent = <<Some(vs[round(clast.k * (Len(vs) - 1), Den) + 1])>>
             /\ clast.k = 0 => clast.sent = <<Some(vs[1])>>
             /\ clast.k = Den => clast.sent = <<Some(vs[Len(vs)])>>
        ELSE clast.raised # "" /\ clast.sent = <<>> /\ ctl.value = clast.value_before

\* C7: set_fraction(f) forwards the value at index round(f * (n - 1)) of the
\* normalized value set; f outside [0, 1] fails and forwards nothing.
C7_SetFractionIndexesNormalized == SetFractionIndexes(Normalized(raw))

\* set_fraction does index the range value_range returns.
SetFractionIndexesValueRange == SetFractionIndexes(value_range(raw))

(***************************************************************************)
(* Camera                                                                  *)
(***************************************************************************)
MaxCalls == 3

\* The package's resolve_default on a fresh list.
pkg_resolve_default(formats) ==
    IF pkg = "omni_camera" THEN resolve_default(formats)
    ELSE camerata_resolve_default(formats).ret

\* A plausible slip: the `if self._initialized` check left out.
open_unguarded(c, e, fmt, ok) ==
    LET f == IF fmt = None THEN pkg_resolve_default(dev) ELSE Ok(fmt[1])
    IN  IF f.err # "" THEN [cam |-> c, eng |-> e, raised |-> f.err, sent |-> <<>>]
        ELSE IF ~ok
        THEN [cam |-> c, eng |-> [e EXCEPT !.open_calls = @ + 1],
              raised |-> "EngineOpenError", sent |-> f.val]
        ELSE [cam |-> [c EXCEPT !.initialized = TRUE],
              eng |-> [e EXCEPT !.open_calls = @ + 1, !.opens = @ + 1, !.opened = TRUE],
              raised |-> "", sent |-> f.val]

\* Camera.open(fmt). ok: whether the engine's open accepts the call; when it
\* does not, its exception propagates before _initialized is set. sent is the
\* format handed to the engine's open, <<>> when it is not called.
open(c, e, fmt, ok) ==
    IF c.initialized
    THEN [cam |-> c, eng |-> e, raised |-> "RuntimeError", sent |-> <<>>]
    ELSE LET f == IF fmt = None THEN pkg_resolve_default(dev) ELSE Ok(fmt[1])
         IN  IF f.err # "" THEN [cam |-> c, eng |-> e, raised |-> f.err, sent |-> <<>>]
             ELSE IF ~ok
             THEN [cam |-> c, eng |-> [e EXCEPT !.open_calls = @ + 1],
                   raised |-> "EngineOpenError", sent |-> f.val]
             ELSE [cam |-> [c EXCEPT !.initialized = TRUE],
                   eng |-> [e EXCEPT !.open_calls = @ + 1, !.opens = @ + 1,
                                     !.opened = TRUE],
                   raised |-> "", sent |-> f.val]

\* Camera.poll_frame_raw(). pending: whether check_err() finds an engine error
\* (omni_camera only; camerata does not call it). frame: whether the engine
\* has a frame. polled: whether the engine's poll_frame was called.
poll_frame_raw(c, e, ok, pending, frame) ==
    LET o == IF ~c.initialized THEN open(c, e, None, ok)
             ELSE [cam |-> c, eng |-> e, raised |-> "", sent |-> <<>>]
    IN  IF o.raised # ""
        THEN [cam |-> o.cam, eng |-> o.eng, raised |-> o.raised, sent |-> o.sent,
              polled |-> FALSE, ret |-> "None"]
        ELSE IF pkg = "omni_camera" /\ pending
        THEN [cam |-> o.cam, eng |-> o.eng, raised |-> "EngineCheckError", sent |-> o.sent,
              polled |-> FALSE, ret |-> "None"]
        ELSE [cam |-> o.cam, eng |-> [o.eng EXCEPT !.polls = @ + 1], raised |-> "",
              sent |-> o.sent, polled |-> TRUE,
              ret |-> IF frame THEN "frame" ELSE "None"]

\* poll_frame_np() / poll_frame_pil(): poll_frame_raw(), then the frame
\* wrapped as `kind` unless it is None.
poll_frame_as(kind, c, e, ok, pending, frame) ==
    LET r == poll_frame_raw(c, e, ok, pending, frame)
    IN  [r EXCEPT !.ret = IF r.raised = "" /\ @ = "frame" THEN kind ELSE "None"]

NoCameraCall == [op |-> "none", raised |-> "", was_initialized |-> FALSE,
                 open_calls_before |-> 0, sent |-> <<>>, polled |-> FALSE, ret |-> "None"]

InitCamera ==
    /\ pkg \in Packages
    /\ dev \in SeqsUpTo(Universe, MaxLen)
    /\ cam = [initialized |-> FALSE]
    /\ eng = [opened |-> FALSE, open_calls |-> 0, opens |-> 0, polls |-> 0]
    /\ camlast = NoCameraCall

\* The call counters are capped for the model.
Budget == eng.open_calls < MaxCalls /\ eng.polls < MaxCalls

Did(op, r) ==
    /\ cam' = r.cam
    /\ eng' = r.eng
    /\ camlast' = [op |-> op, raised |-> r.raised, was_initialized |-> cam.initialized,
                   open_calls_before |-> eng.open_calls, sent |-> r.sent,
                   polled |-> r.polled, ret |-> r.ret]
    /\ UNCHANGED <<pkg, fvars, cvars>>

Open(fmt, ok) ==
    /\ Budget
    /\ LET r == open(cam, eng, fmt, ok)
       IN  Did("open", [cam |-> r.cam, eng |-> r.eng, raised |-> r.raised,
                        sent |-> r.sent, polled |-> FALSE, ret |-> "None"])

PollFrameRaw(ok, pending, frame) ==
    /\ Budget
    /\ Did("poll_frame_raw", poll_frame_raw(cam, eng, ok, pending, frame))

PollFrameNp(ok, pending, frame) ==
    /\ Budget
    /\ Did("poll_frame_np", poll_frame_as("ndarray", cam, eng, ok, pending, frame))

PollFramePil(ok, pending, frame) ==
    /\ Budget
    /\ Did("poll_frame_pil", poll_frame_as("Image", cam, eng, ok, pending, frame))

(***************************************************************************)
(* Properties of the camera                                                *)
(***************************************************************************)
PollOps == {"poll_frame_raw", "poll_frame_np", "poll_frame_pil"}

\* C10: open() on an opened camera raises and does not reach the engine's
\* open; the engine's open succeeds at most once; the engine's poll_frame is
\* called only after a successful engine open, a poll on a camera not yet
\* opened opening it with the resolve_default format first; a failed engine
\* open leaves the camera not opened.
C10_OpenOncePollAfterOpen ==
    /\ (camlast.op = "open" /\ camlast.was_initialized) =>
            /\ camlast.raised = "RuntimeError"
            /\ camlast.sent = <<>>
            /\ eng.open_calls = camlast.open_calls_before
    /\ eng.opens <= 1
    /\ eng.polls > 0 => eng.opened
    /\ camlast.polled => eng.opened /\ cam.initialized
    /\ (camlast.op \in PollOps /\ ~camlast.was_initialized /\ camlast.polled) =>
            /\ eng.open_calls = camlast.open_calls_before + 1
            /\ camlast.sent = pkg_resolve_default(dev).val
            /\ camlast.sent # <<>>
    /\ cam.initialized <=> eng.opened
    /\ camlast.raised = "EngineOpenError" =>
            /\ eng.open_calls = camlast.open_calls_before + 1
            /\ ~cam.initialized
            /\ ~camlast.polled

\* C10's case: open() called again on a camera a poll has opened.
C10_Witness ==
    /\ camlast.op = "open"
    /\ camlast.was_initialized
    /\ eng.polls > 0
    /\ eng.opens = 1
    /\ eng.open_calls > 1

(***************************************************************************)
(* Specifications                                                          *)
(***************************************************************************)
IdleFormat ==
    /\ opts = <<>>
    /\ tmp = <<>>
    /\ cur = "opts"
    /\ last = NoCall
    /\ before = NoCall

IdleControl ==
    /\ raw = <<0, 0, 1>>
    /\ ctl = [value |-> None]
    /\ clast = NoControlCall

IdleCamera ==
    /\ cam = [initialized |-> FALSE]
    /\ eng = [opened |-> FALSE, open_calls |-> 0, opens |-> 0, polls |-> 0]
    /\ camlast = NoCameraCall

\* A caller narrowing and resolving a format list.
Init == InitFormat(ChainFormats) /\ IdleControl /\ IdleCamera

Next ==
    \/ GetFormatOptions
    \/ \E func \in Predicates : Prefer(func)
    \/ \E lo \in FpsMinGrid, hi \in FpsMaxGrid : PreferFpsRange(lo, hi)
    \/ \E lo \in FpsMinGrid, hi \in FpsMaxGrid : CamerataPreferFpsRange(lo, hi)
    \/ \E lo \in WidthGrid, hi \in WidthGrid : PreferWidthRange(lo, hi)
    \/ \E lo \in HeightGrid, hi \in HeightGrid : PreferHeightRange(lo, hi)
    \/ \E r \in RatioGrid : PreferAspectRatio(r)
    \/ \E r \in RatioGrid : PreferSidesRatio(r)
    \/ \E r \in RatioGrid : CamerataPreferSidesRatio(r)
    \/ \E fmt \in {MJPEG, YUYV} : PreferFrameFormat(fmt)
    \/ \E key \in KeyGrid : Resolve(key)
    \/ CamerataResolve
    \/ ResolveDefault
    \/ CamerataResolveDefault

Spec == Init /\ [][Next]_vars

\* A caller resolving a list of any formats, by resolve_default() or step by
\* step along the chain it is documented to equal.
DefaultInit == InitFormat(Universe) /\ IdleControl /\ IdleCamera

DefaultNext ==
    \/ GetFormatOptions
    \/ PreferFpsRange(Some(25), Some(60))
    \/ CamerataPreferFpsRange(Some(25), Some(60))
    \/ PreferAspectRatio(<<4, 3>>)
    \/ PreferSidesRatio(<<4, 3>>)
    \/ CamerataPreferSidesRatio(<<4, 3>>)
    \/ PreferFrameFormat(MJPEG)
    \/ Resolve("width")
    \/ CamerataResolve
    \/ ResolveDefault
    \/ CamerataResolveDefault

SpecDefault == DefaultInit /\ [][DefaultNext]_vars

\* A caller driving one CameraControl (omni_camera only).
ControlInit ==
    /\ pkg = "omni_camera"
    /\ dev = <<>>
    /\ IdleFormat
    /\ InitControl
    /\ IdleCamera

ControlNext ==
    \/ ValueRange
    \/ \E value \in SetValueInputs : SetValue(value)
    \/ \E k \in (-1)..(Den + 1) : SetFraction(k)

SpecControl == ControlInit /\ [][ControlNext]_vars

\* A caller opening and polling one Camera.
CameraInit ==
    /\ InitCamera
    /\ IdleFormat
    /\ IdleControl

CameraNext ==
    \/ \E fmt \in {None} \cup { Some(f) : f \in Universe }, ok \in BOOLEAN :
            Open(fmt, ok)
    \/ \E ok \in BOOLEAN, pending \in BOOLEAN, frame \in BOOLEAN :
            PollFrameRaw(ok, pending, frame)
    \/ \E ok \in BOOLEAN, pending \in BOOLEAN, frame \in BOOLEAN :
            PollFrameNp(ok, pending, frame)
    \/ \E ok \in BOOLEAN, pending \in BOOLEAN, frame \in BOOLEAN :
            PollFramePil(ok, pending, frame)

SpecCamera == CameraInit /\ [][CameraNext]_vars

=============================================================================
